---- MODULE Spec2Model ----
(***************************************************************************)
(* Model of differ.py: S3Object (the handle on one S3 key) and             *)
(* S3DiffUploader.upload (one diff-upload run), together with the part of  *)
(* the S3 backend and of the gzip stream that the run drives.              *)
(*                                                                         *)
(* Bytes are not enumerated.  A byte of the local source is identified by  *)
(* its offset, so a range of source bytes is an interval <<a, b>> standing *)
(* for the bytes at offsets a .. b-1, and stored bytes are sequences of    *)
(* gzip segments (header, deflate data of an interval, trailer).  With     *)
(* every source byte distinct, a missing, duplicated or reordered byte in  *)
(* the stored object shows up as a different interval list.                *)
(***************************************************************************)
EXTENDS Integers, Sequences, FiniteSets, TLC

VARIABLES
    keyIsGz,     \* self._key.endswith(".gz")
    compress,    \* self._compress
    ratio,       \* how compressible the source's content is (input bytes per output byte)
    src,         \* the local source: its size in bytes (offsets 0 .. src-1)
    now,         \* wall clock in seconds, as gzip reads it for the header
    obj,         \* the destination object on the backend
    sessions,    \* the backend's multipart upload sessions, indexed by upload id
    run,         \* the local variables of each upload() run
    hist,        \* what each run has done so far (observation only)
    runs,        \* number of upload() runs started
    overlap,     \* some run started while another run was in progress
    events       \* number of environment events so far: appends, clock ticks, failed calls

vars == <<keyIsGz, compress, ratio, src, now, obj, sessions, run, hist, runs, overlap, events>>

----------------------------------------------------------------------------
(* Program constants *)

MULTIPART_TRIGGER_SIZE == 10 * (2^19)

READ_CHUNK_SIZE == 8192

\* A gzip member: 10 header bytes (magic, method, flags, MTIME, xfl, os), the
\* deflate stream, then the final deflate block and CRC32 + ISIZE.
GZIP_HEADER_SIZE == 10

GZIP_TRAILER_SIZE == 10

(* Bounds of the model *)

MaxRuns == 3

MaxEvents == 2

Runs == {1, 2}

Ratios == {1, 1024}

InitSizes == {0, 1, MULTIPART_TRIGGER_SIZE + 1}

AppendSizes == {READ_CHUNK_SIZE + 1}

TruncatedSizes == {1}

NoTag == -1

NoSize == -1

----------------------------------------------------------------------------
(* Content: a sequence of intervals <<a, b>>, a < b, with no two adjacent  *)
(* intervals contiguous.                                                   *)

Content(a, b) == IF a < b THEN << <<a, b>> >> ELSE << >>

Cat(c, d) ==
    IF c = << >> THEN d
    ELSE IF d = << >> THEN c
    ELSE IF c[Len(c)][2] = d[1][1]
         THEN SubSeq(c, 1, Len(c) - 1) \o << <<c[Len(c)][1], d[1][2]>> >> \o Tail(d)
         ELSE c \o d

RECURSIVE ContentLen(_)
ContentLen(c) == IF c = << >> THEN 0 ELSE (c[1][2] - c[1][1]) + ContentLen(Tail(c))

----------------------------------------------------------------------------
(* gzip *)

Hdr(t) == [k |-> "hdr", mtime |-> t]

Data(a, b) == [k |-> "data", from |-> a, to |-> b]

Trl(c) == [k |-> "trl", crc |-> c, isize |-> ContentLen(c)]

\* Output bytes deflate has produced once it has consumed x input bytes.
Deflated(x) == x \div ratio

SegSize(s) ==
    CASE s.k = "hdr"  -> GZIP_HEADER_SIZE
      [] s.k = "data" -> Deflated(s.to) - Deflated(s.from)
      [] s.k = "trl"  -> GZIP_TRAILER_SIZE

RECURSIVE Size(_)
Size(bytes) == IF bytes = << >> THEN 0 ELSE SegSize(bytes[1]) + Size(Tail(bytes))

\* gzip.GzipFile(fileobj=stream, mode="w"): the header goes to the stream at once.
GzipOpen(t) == [stream |-> << Hdr(t) >>, written |-> << >>]

\* compressor.write(chunk): deflate output for the chunk <<a, b>> lands in the stream.
GzipWrite(z, a, b) ==
    LET s == z.stream
        n == Len(s)
    IN  [stream  |-> IF n > 0 /\ s[n].k = "data" /\ s[n].to = a
                     THEN [s EXCEPT ![n].to = b]
                     ELSE Append(s, Data(a, b)),
         written |-> Cat(z.written, Content(a, b))]

\* Mutant: the compressor is never closed, so no trailer reaches the stream.
GzipCloseMut(z) == z

\* compressor.close(): final block, CRC32 and ISIZE of everything written.
GzipClose(z) == [stream |-> Append(z.stream, Trl(z.written)), written |-> z.written]

\* Decompression of a stored byte string: a sequence of members, each a
\* header, data and a trailer whose CRC and ISIZE match the member's data.
RECURSIVE Gunzip(_, _, _, _, _)
Gunzip(bytes, i, inMember, member, out) ==
    IF i > Len(bytes)
    THEN [ok |-> ~inMember, data |-> out]
    ELSE LET s == bytes[i] IN
         CASE s.k = "hdr" ->
                IF inMember THEN [ok |-> FALSE, data |-> out]
                ELSE Gunzip(bytes, i + 1, TRUE, << >>, out)
           [] s.k = "data" ->
                IF ~inMember THEN [ok |-> FALSE, data |-> out]
                ELSE Gunzip(bytes, i + 1, TRUE, Cat(member, Content(s.from, s.to)), out)
           [] s.k = "trl" ->
                IF ~inMember \/ s.crc # member \/ s.isize # ContentLen(member)
                THEN [ok |-> FALSE, data |-> out]
                ELSE Gunzip(bytes, i + 1, FALSE, << >>, Cat(out, member))

Decompress(bytes) == Gunzip(bytes, 1, FALSE, << >>, << >>)

----------------------------------------------------------------------------
(* The S3 backend, as far as differ.py calls it *)

NoObject == [exists |-> FALSE, bytes |-> << >>, tag |-> NoTag]

\* The ETag S3 returns for a part: a digest of its bytes (modelled as ideal:
\* equal digests only for equal bytes).
ETag(bytes) == bytes

NewSession == [open |-> TRUE, parts |-> << >>]

\* upload_part / upload_part_copy: the session keeps the bytes under the part
\* number, replacing an earlier part of the same number.
PutPart(sess, n, bytes) ==
    [sess EXCEPT !.parts =
        [x \in (DOMAIN sess.parts) \cup {n} |-> IF x = n THEN bytes ELSE sess.parts[x]]]

\* complete_multipart_upload accepts a list of parts that were uploaded to the
\* session, with matching ETags, in ascending part-number order.
CompleteAccepts(sess, ps) ==
    /\ sess.open
    /\ Len(ps) >= 1
    /\ \A i \in 1..Len(ps) :
        /\ ps[i].PartNumber \in DOMAIN sess.parts
        /\ ps[i].ETag = ETag(sess.parts[ps[i].PartNumber])
    /\ \A i \in 1..(Len(ps) - 1) : ps[i].PartNumber < ps[i + 1].PartNumber

RECURSIVE Assemble(_, _)
Assemble(sess, ps) ==
    IF ps = << >> THEN << >>
    ELSE sess.parts[ps[1].PartNumber] \o Assemble(sess, Tail(ps))

----------------------------------------------------------------------------
(* S3Object and S3DiffUploader *)

\* No response of head_object at hand.
NoResp == [code |-> "none", size |-> NoSize]

Idle == [pc |-> "idle", mpu_id |-> 0, starting_byte |-> 0, parts |-> << >>,
         gz |-> [stream |-> << >>, written |-> << >>], self_size |-> NoSize,
         uncompressed_file_size |-> 0, filepos |-> 0, resp |-> NoResp]

NoHist == [before |-> NoObject, read |-> << >>, ops |-> << >>, copied |-> FALSE,
           calls |-> << >>,
           completeCalls |-> 0, completeArgs |-> << >>, tagWrites |-> 0, tagWritten |-> NoTag,
           flushes |-> 0, eofSize |-> NoSize,
           grew |-> FALSE, grewBefore |-> FALSE]

Finished(r) == run[r].pc \in {"idle", "done", "aborted"}

\* A backend call raises: the backend rejects a request that is not valid,
\* and may fail on a valid one.
Raises(valid) ==
    /\ valid => events < MaxEvents
    /\ events' = IF valid THEN events + 1 ELSE events

\* Mutant: an exception handler aborts the multipart upload.
SessionAfterFailureMut(sess) == [sess EXCEPT !.open = FALSE, !.parts = << >>]

\* What upload() does to its session when a call raises: nothing; differ.py
\* never calls abort_multipart_upload.
SessionAfterFailure(sess) == sess

\* The exception ends upload(): its stream, its compressor, its part list
\* and its file handle go with the frame; the session stays on the backend.
Abort(r, valid) ==
    /\ Raises(valid)
    /\ run' = [run EXCEPT ![r] = [Idle EXCEPT !.pc = "aborted",
                                             !.mpu_id = run[r].mpu_id,
                                             !.starting_byte = run[r].starting_byte]]
    /\ sessions' = [sessions EXCEPT ![run[r].mpu_id] = SessionAfterFailure(@)]

\* A backend call returns.
Returns == events' = events

\* Mutant: part numbers counted from 0.
NextPartNumberMut(ps) == Len(ps)

\* The part number given to upload_part: len(parts) + 1.
NextPartNumber(ps) == Len(ps) + 1

\* The part record copy_existing_object returns.
CopyPartRecord(etag) == [PartNumber |-> 1, ETag |-> etag]

\* Mutant: the source is read from its beginning whatever the resume offset.
SeekOffsetMut(r) == 0

\* inputFile.seek(starting_byte)
SeekOffset(r) == run[r].starting_byte

\* Mutant: any existing object is resumed from, whatever its size.
ResumableMut(found, size) == found

\* Mutant: an object of exactly the trigger size is resumed from.
ResumableAtTriggerMut(found, size) == found /\ size >= MULTIPART_TRIGGER_SIZE

\* The condition on which upload() resumes from the existing object.
Resumable(found, size) == found /\ size > MULTIPART_TRIGGER_SIZE

\* Mutant: a trigger of 10 << 18 in the flush test.
FlushDueMut(stream) == Size(stream) > 10 * (2^18)

\* Mutant: the stream is flushed after every chunk.
FlushEveryChunkMut(stream) == Size(stream) > 0

\* The condition on which the stream is flushed as a part in mid-read.
FlushDue(stream) == Size(stream) > MULTIPART_TRIGGER_SIZE

\* Mutant: the tag gets the offset the run started from.
TagValueMut(r) == run[r].starting_byte

\* The value upload() writes to the tag.
TagValue(r) == run[r].uncompressed_file_size

\* Mutant: the physical size is taken as the logical size for every key.
GetUncompressedSizeMut(r, tag) == run[r].self_size

\* S3Object.get_uncompressed_size, given the tag read from the backend.
GetUncompressedSize(r, tag) == IF keyIsGz THEN tag ELSE run[r].self_size

\* upload(), lines 142-148: start the multipart upload, create the stream and
\* the gzip compressor on it.
Start(r) ==
    /\ Finished(r)
    /\ runs < MaxRuns
    /\ runs' = runs + 1
    /\ overlap' = (overlap \/ \E q \in Runs \ {r} : ~Finished(q))
    /\ hist' = [hist EXCEPT ![r] = [NoHist EXCEPT !.before = obj,
                                                   !.calls = << "begin" >>,
                                                   !.grewBefore = \E q \in Runs : hist[q].grew \/ hist[q].grewBefore]]
    /\ \/ /\ Returns
          /\ sessions' = Append(sessions, NewSession)
          /\ run' = [run EXCEPT ![r] = [Idle EXCEPT !.pc = "probe",
                                                   !.mpu_id = Len(sessions) + 1,
                                                   !.gz = GzipOpen(now)]]
       \/ /\ events < MaxEvents
          /\ events' = events + 1
          /\ run' = [run EXCEPT ![r] = [Idle EXCEPT !.pc = "aborted"]]
          /\ UNCHANGED sessions
    /\ UNCHANGED <<keyIsGz, compress, ratio, src, now, obj>>

\* The outcomes of head_object: the response, the two ways in which the
\* client reports a missing key, and any other client error.
HeadCodes == {"200", "NoSuchKey", "404", "403"}

\* Line 30: S3_CLIENT.head_object, in exists() at line 151 and in size(True)
\* at line 181.
HeadObject(r) ==
    /\ run[r].pc \in {"probe", "report"}
    /\ \E code \in HeadCodes :
        /\ code = "200" => obj.exists
        /\ code \in {"NoSuchKey", "404"} => ~obj.exists
        /\ IF code = "403" THEN Raises(TRUE) ELSE Returns
        /\ run' = [run EXCEPT ![r].resp = [code |-> code,
                                           size |-> IF code = "200" THEN Size(obj.bytes)
                                                    ELSE NoSize],
                              ![r].pc = IF run[r].pc = "probe" THEN "probed" ELSE "reported"]
    /\ UNCHANGED <<keyIsGz, compress, ratio, src, now, obj, sessions, hist, runs, overlap>>

\* Mutant: only the NoSuchKey exception is taken as a missing key.
ExistsResultMut(code) ==
    IF code = "200" THEN "true" ELSE IF code = "NoSuchKey" THEN "false" ELSE "raise"

\* Lines 29-40: what exists() does with the outcome of head_object.
ExistsResult(code) ==
    CASE code = "200" -> "true"
      [] code = "NoSuchKey" -> "false"
      [] code = "404" -> "false"
      [] OTHER -> "raise"

\* Lines 31-40, and the rest of the condition of line 151: exists() caches
\* the size on success; size() then returns the cached size.
Exists(r) ==
    /\ run[r].pc = "probed"
    /\ LET res == ExistsResult(run[r].resp.code) IN
       \/ /\ res = "true"
          /\ Returns
          /\ run' = [run EXCEPT ![r].self_size = run[r].resp.size,
                                ![r].pc = IF Resumable(TRUE, run[r].resp.size)
                                          THEN "tagread" ELSE "stat"]
          /\ UNCHANGED sessions
       \/ /\ res = "false"
          /\ Returns
          /\ run' = [run EXCEPT ![r].pc = "stat"]
          /\ UNCHANGED sessions
       \/ /\ res = "raise"
          /\ Abort(r, FALSE)
    /\ UNCHANGED <<keyIsGz, compress, ratio, src, now, obj, hist, runs, overlap>>

\* Line 152: starting_byte = get_uncompressed_size(); for a .gz key this reads
\* the tag, and fails when the call fails or the object carries no such tag.
ReadLogicalSize(r) ==
    /\ run[r].pc = "tagread"
    /\ \/ /\ Returns
          /\ keyIsGz => (obj.exists /\ obj.tag # NoTag)
          /\ run' = [run EXCEPT ![r].starting_byte = GetUncompressedSize(r, obj.tag),
                                ![r].resp = NoResp,
                                ![r].pc = "copy"]
          /\ UNCHANGED sessions
       \/ /\ keyIsGz
          /\ Abort(r, obj.exists /\ obj.tag # NoTag)
    /\ UNCHANGED <<keyIsGz, compress, ratio, src, now, obj, hist, runs, overlap>>

\* Line 153: parts.append(copy_existing_object(mpu_id)); S3 copies the object
\* as it is at the time of the call into part 1 of the session.
CopyExistingObject(r) ==
    /\ run[r].pc = "copy"
    /\ \/ /\ Returns
          /\ obj.exists
          /\ sessions' = [sessions EXCEPT ![run[r].mpu_id] = PutPart(@, 1, obj.bytes)]
          /\ run' = [run EXCEPT ![r].parts = Append(@, CopyPartRecord(ETag(obj.bytes))),
                                ![r].pc = "stat"]
          /\ hist' = [hist EXCEPT ![r].ops = Append(@, 1), ![r].copied = TRUE,
                                  ![r].calls = Append(@, "copy")]
       \/ /\ Abort(r, obj.exists)
          /\ hist' = [hist EXCEPT ![r].calls = Append(@, "copy")]
    /\ UNCHANGED <<keyIsGz, compress, ratio, src, now, obj, runs, overlap>>

\* Lines 157-159: os.stat, open, seek.
Stat(r) ==
    /\ run[r].pc = "stat"
    /\ run' = [run EXCEPT ![r].uncompressed_file_size = src,
                          ![r].filepos = SeekOffset(r),
                          ![r].resp = NoResp,
                          ![r].pc = "read"]
    /\ UNCHANGED <<keyIsGz, compress, ratio, src, now, obj, sessions, hist, runs, overlap, events>>

\* Mutant: end of input goes straight to complete_multipart_upload.
AtEofSkipFinalMut(z) == [gz |-> GzipClose(z), pc |-> "complete"]

\* Mutant: end of input neither closes the compressor nor leaves the loop.
AtEofSpinMut(z) == [gz |-> z, pc |-> "read"]

\* Lines 162-168: at end of input the compressor is closed and the stream is
\* uploaded as the last part, whatever it holds.
AtEof(z) == [gz |-> GzipClose(z), pc |-> "final"]

\* Lines 161-166 and 172-175: read a chunk; at end of input close the
\* compressor, else write the chunk and test the stream's size.
Read(r) ==
    /\ run[r].pc = "read"
    /\ LET pos == run[r].filepos
           n   == IF src - pos >= READ_CHUNK_SIZE THEN READ_CHUNK_SIZE
                  ELSE IF src > pos THEN src - pos ELSE 0
           z   == GzipWrite(run[r].gz, pos, pos + n)
       IN  IF n = 0
           THEN /\ run' = [run EXCEPT ![r].gz = AtEof(run[r].gz).gz,
                                      ![r].pc = AtEof(run[r].gz).pc]
                /\ hist' = [hist EXCEPT ![r].eofSize = src]
           ELSE /\ run' = [run EXCEPT ![r].gz = z,
                                      ![r].filepos = pos + n,
                                      ![r].pc = IF FlushDue(z.stream) THEN "flush" ELSE "read"]
                /\ hist' = [hist EXCEPT ![r].read = Cat(@, Content(pos, pos + n))]
    /\ UNCHANGED <<keyIsGz, compress, ratio, src, now, obj, sessions, runs, overlap, events>>

\* Mutant: the error of complete_multipart_upload is swallowed and upload()
\* goes on to write the tag.
AfterFailedCompleteMut == "settag"

\* Where upload() is after complete_multipart_upload raised: nothing catches
\* the exception.
AfterFailedComplete == "aborted"

\* Mutant: upload_part leaves the stream as it is.
StreamAfterUploadMut(b) == b

\* Lines 113-114: part_bytes.seek(0); part_bytes.truncate().
StreamAfterUpload(b) == << >>

\* S3Object.upload_part(mpu_id, len(parts) + 1, stream): the stream's bytes
\* become the part; the stream is rewound and truncated.
UploadPart(r, nextpc, midstream) ==
    LET n == NextPartNumber(run[r].parts)
        b == run[r].gz.stream
        c == IF midstream THEN "part" ELSE "final"
    IN  \/ /\ Returns
           /\ sessions[run[r].mpu_id].open
           /\ sessions' = [sessions EXCEPT ![run[r].mpu_id] = PutPart(@, n, b)]
           /\ run' = [run EXCEPT ![r].parts = Append(@, [PartNumber |-> n, ETag |-> ETag(b)]),
                                 ![r].gz.stream = StreamAfterUpload(b),
                                 ![r].pc = nextpc]
           /\ hist' = [hist EXCEPT ![r].ops = Append(@, n),
                                   ![r].calls = Append(@, c),
                                   ![r].flushes = @ + (IF midstream THEN 1 ELSE 0)]
        \/ /\ Abort(r, sessions[run[r].mpu_id].open)
           /\ hist' = [hist EXCEPT ![r].calls = Append(@, c)]

\* Lines 176-177: the flush in mid-read.
FlushPart(r) ==
    /\ run[r].pc = "flush"
    /\ UploadPart(r, "read", TRUE)
    /\ UNCHANGED <<keyIsGz, compress, ratio, src, now, obj, runs, overlap>>

\* Lines 167-168: the last part, after the compressor was closed.
FinalPart(r) ==
    /\ run[r].pc = "final"
    /\ UploadPart(r, "complete", FALSE)
    /\ UNCHANGED <<keyIsGz, compress, ratio, src, now, obj, runs, overlap>>

\* Line 169: complete_multipart_upload(mpu_id, parts).  On success S3 replaces
\* the object by the parts in the order listed; the new object carries no tag.
Complete(r) ==
    /\ run[r].pc = "complete"
    /\ hist' = [hist EXCEPT ![r].completeCalls = @ + 1, ![r].completeArgs = run[r].parts,
                            ![r].calls = Append(@, "complete")]
    /\ \/ /\ Returns
          /\ CompleteAccepts(sessions[run[r].mpu_id], run[r].parts)
          /\ obj' = [exists |-> TRUE,
                     bytes  |-> Assemble(sessions[run[r].mpu_id], run[r].parts),
                     tag    |-> NoTag]
          /\ sessions' = [sessions EXCEPT ![run[r].mpu_id].open = FALSE]
          /\ run' = [run EXCEPT ![r].pc = "settag"]
       \/ /\ Raises(CompleteAccepts(sessions[run[r].mpu_id], run[r].parts))
          /\ run' = [run EXCEPT ![r].pc = AfterFailedComplete]
          /\ sessions' = [sessions EXCEPT ![run[r].mpu_id] = SessionAfterFailure(@)]
          /\ UNCHANGED obj
    /\ UNCHANGED <<keyIsGz, compress, ratio, src, now, runs, overlap>>

\* Line 170: set_uncompressed_size(uncompressed_file_size).
SetUncompressedSize(r) ==
    /\ run[r].pc = "settag"
    /\ \/ /\ Returns
          /\ obj.exists
          /\ obj' = [obj EXCEPT !.tag = TagValue(r)]
          /\ hist' = [hist EXCEPT ![r].tagWrites = @ + 1, ![r].tagWritten = TagValue(r),
                                  ![r].calls = Append(@, "tag")]
          /\ run' = [run EXCEPT ![r].pc = "report"]
          /\ UNCHANGED sessions
       \/ /\ Abort(r, obj.exists)
          /\ hist' = [hist EXCEPT ![r].calls = Append(@, "tag")]
          /\ UNCHANGED obj
    /\ UNCHANGED <<keyIsGz, compress, ratio, src, now, runs, overlap>>

\* Lines 42-46 and 181: size(True) probes the object once more; the report
\* prints the cached size, refreshed if the probe found the object.
Report(r) ==
    /\ run[r].pc = "reported"
    /\ LET res == ExistsResult(run[r].resp.code) IN
       \/ /\ res = "true"
          /\ Returns
          /\ run' = [run EXCEPT ![r].self_size = run[r].resp.size,
                                ![r].resp = NoResp,
                                ![r].pc = "done"]
          /\ UNCHANGED sessions
       \/ /\ res = "false"
          /\ Returns
          /\ run' = [run EXCEPT ![r].resp = NoResp, ![r].pc = "done"]
          /\ UNCHANGED sessions
       \/ /\ res = "raise"
          /\ Abort(r, FALSE)
    /\ UNCHANGED <<keyIsGz, compress, ratio, src, now, obj, hist, runs, overlap>>

----------------------------------------------------------------------------
(* The environment: the writer of the local source, and the clock *)

\* Some other process appends n bytes to the source.  The read loop runs
\* until end of input, so an append that lands while a run is in the middle
\* of the loop reads the same as one that lands when the loop has caught up
\* with the data present; only the latter is generated.
SourceAppend ==
    /\ events < MaxEvents
    /\ runs >= 1
    /\ \A r \in Runs : run[r].pc \in {"read", "flush"} => run[r].filepos >= src
    /\ \E n \in AppendSizes : src' = src + n
    /\ events' = events + 1
    /\ hist' = [r \in Runs |->
                  IF run[r].pc \in {"read", "flush"}
                  THEN [hist[r] EXCEPT !.grew = TRUE] ELSE hist[r]]
    /\ UNCHANGED <<keyIsGz, compress, ratio, now, obj, sessions, run, runs, overlap>>

\* Time passes; only the construction of the compressor reads the clock.
Tick ==
    /\ events < MaxEvents
    /\ runs >= 1
    /\ runs < MaxRuns
    /\ \A r \in Runs : Finished(r)
    /\ now' = now + 1
    /\ events' = events + 1
    /\ UNCHANGED <<keyIsGz, compress, ratio, src, obj, sessions, run, hist, runs, overlap>>

\* The source is truncated, or replaced by a shorter file, between two runs.
SourceTruncate ==
    /\ events < MaxEvents
    /\ runs >= 1
    /\ \A r \in Runs : Finished(r)
    /\ \E n \in TruncatedSizes : n < src /\ src' = n
    /\ events' = events + 1
    /\ UNCHANGED <<keyIsGz, compress, ratio, now, obj, sessions, run, hist, runs, overlap>>

----------------------------------------------------------------------------

\* The state before the first upload(): a source of one of the given sizes,
\* no destination object, no session.
Configured(sizes) ==
    /\ keyIsGz \in BOOLEAN
    /\ compress \in BOOLEAN
    /\ ratio \in Ratios
    /\ src \in sizes
    /\ now = 0
    /\ obj = NoObject
    /\ sessions = << >>
    /\ run = [r \in Runs |-> Idle]
    /\ hist = [r \in Runs |-> NoHist]
    /\ runs = 0
    /\ overlap = FALSE
    /\ events = 0

Init == Configured(InitSizes)

\* The steps of upload() after its first call.
Progress(r) ==
    \/ HeadObject(r)
    \/ Exists(r)
    \/ ReadLogicalSize(r)
    \/ CopyExistingObject(r)
    \/ Stat(r)
    \/ Read(r)
    \/ FlushPart(r)
    \/ FinalPart(r)
    \/ Complete(r)
    \/ SetUncompressedSize(r)
    \/ Report(r)

Step(r) == Start(r) \/ Progress(r)

\* One upload() at a time: the next invocation starts after the last ended.
Next == Step(1) \/ SourceAppend \/ Tick

Spec == Init /\ [][Next]_vars

\* Two upload() processes against the same destination, interleaved at the
\* backend calls: what exists() makes of a response, os.stat and the read
\* loop touch only the process's own state and the source, so a process
\* there runs on until its next backend call.
\* The clock stands still: the header's MTIME plays no part in what the
\* object decompresses to.
Scheduled(r) == \A q \in Runs \ {r} : run[q].pc \notin {"probed", "reported", "stat", "read"}

\* A process is started next to a running one only once the destination
\* exists: the overlapping runs explored are those of the resume protocol.
\* The processes are interchangeable, so when all are free the lowest starts.
Joins(r) ==
    /\ (\E q \in Runs \ {r} : ~Finished(q)) => obj.exists
    /\ (\A q \in Runs : Finished(q)) => r = 1

\* The source is appended to while no process is reading it: what an append
\* under a read does is a matter of one run alone.
AppendAside ==
    /\ \A r \in Runs : run[r].pc \notin {"read", "flush"}
    /\ SourceAppend

NextConc ==
    \/ \E r \in Runs : Scheduled(r) /\ Joins(r) /\ Start(r)
    \/ \E r \in Runs : Scheduled(r) /\ HeadObject(r)
    \/ \E r \in Runs : Scheduled(r) /\ Exists(r)
    \/ \E r \in Runs : Scheduled(r) /\ ReadLogicalSize(r)
    \/ \E r \in Runs : Scheduled(r) /\ CopyExistingObject(r)
    \/ \E r \in Runs : Scheduled(r) /\ Stat(r)
    \/ \E r \in Runs : Scheduled(r) /\ Read(r)
    \/ \E r \in Runs : Scheduled(r) /\ FlushPart(r)
    \/ \E r \in Runs : Scheduled(r) /\ FinalPart(r)
    \/ \E r \in Runs : Scheduled(r) /\ Complete(r)
    \/ \E r \in Runs : Scheduled(r) /\ SetUncompressedSize(r)
    \/ \E r \in Runs : Scheduled(r) /\ Report(r)
    \/ AppendAside

\* The destination is a .gz key and the source is large and incompressible
\* enough for the object to become resumable.
InitConc ==
    /\ Init
    /\ keyIsGz
    /\ compress
    /\ ratio = 1
    /\ src = MULTIPART_TRIGGER_SIZE + 1

SpecConc == InitConc /\ [][NextConc]_vars

\* A source whose compressed size is exactly the trigger size when it does
\* not compress: 10 header bytes, the data, 10 trailer bytes.
BoundarySizes == {MULTIPART_TRIGGER_SIZE - GZIP_HEADER_SIZE - GZIP_TRAILER_SIZE}

InitBoundary == Configured(BoundarySizes)

SpecBoundary == InitBoundary /\ [][Next]_vars

\* One upload() at a time over a source that may also shrink between runs.
InitTruncated ==
    /\ Init
    /\ src = MULTIPART_TRIGGER_SIZE + 1

NextTruncated == Next \/ SourceTruncate

SpecTruncated == InitTruncated /\ [][NextTruncated]_vars

\* One upload() at a time over a source that is left alone while a run is
\* in progress.  upload() is a single thread and every backend call blocks
\* until it returns or raises, so a run that can take a step takes it.
AppendBetweenRuns == Finished(1) /\ SourceAppend

InitLive ==
    /\ Init
    /\ ratio = 1

NextLive == Step(1) \/ AppendBetweenRuns

SpecLive == InitLive /\ [][NextLive]_vars /\ WF_vars(Progress(1))

----------------------------------------------------------------------------
(* Observations used by the properties *)

\* The run has written the tag: it went through Commit.
Committed(r) == hist[r].tagWrites >= 1

\* The source was not appended to between os.stat and end of input (eofSize
\* is its size when the read loop saw end of input), in this run or in an
\* earlier one.
SourceSteady(r) == ~hist[r].grew /\ ~hist[r].grewBefore

\* The bytes of the parts the run passed to complete_multipart_upload, from
\* part number lo on.
RECURSIVE PartsFrom(_, _, _)
PartsFrom(sess, ps, lo) ==
    IF lo > Len(ps) THEN << >>
    ELSE sess.parts[ps[lo].PartNumber] \o PartsFrom(sess, ps, lo + 1)

UploadedBytes(r, lo) == PartsFrom(sessions[run[r].mpu_id], hist[r].completeArgs, lo)

\* The logical size the handle reports for the object as it was when the run
\* started.
LogicalSizeBefore(r) ==
    IF keyIsGz THEN hist[r].before.tag ELSE Size(hist[r].before.bytes)

----------------------------------------------------------------------------
(* C1 *)

\* C1: after a completed run of a sequence of runs over a source that only
\* grew between runs, the object decompresses to exactly the source's bytes
\* as of that run.
C1_RoundTrip ==
    \A r \in Runs :
        (run[r].pc = "done" /\ SourceSteady(r)) =>
            /\ Decompress(obj.bytes).ok
            /\ Decompress(obj.bytes).data = Content(0, run[r].uncompressed_file_size)

(* C2 *)

\* C2: the part list passed to complete_multipart_upload is numbered 1..k,
\* k >= 1, in the order in which the parts were copied or uploaded.
C2_PartContiguity ==
    \A r \in Runs :
        hist[r].completeCalls >= 1 =>
            LET ps == hist[r].completeArgs IN
            /\ Len(ps) >= 1
            /\ \A i \in 1..Len(ps) : ps[i].PartNumber = i
            /\ hist[r].ops = [i \in 1..Len(ps) |-> i]
            /\ hist[r].copied => ps[1].ETag = ETag(sessions[run[r].mpu_id].parts[1])

C2_Witness ==
    \E r \in Runs :
        /\ hist[r].completeCalls >= 1
        /\ hist[r].copied
        /\ Len(hist[r].completeArgs) >= 2

(* C3 *)

\* C3: the tag written at Commit equals startingOffset plus the number of
\* bytes read from the source in this run.
C3_TagIsBytesIncorporated ==
    \A r \in Runs :
        Committed(r) =>
            hist[r].tagWritten = run[r].starting_byte + ContentLen(hist[r].read)

(* C4 *)

\* The destination was resumable when the run started: it existed with a
\* physical size above the trigger size, and its logical size was readable.
ResumableBefore(r) ==
    /\ hist[r].before.exists
    /\ Size(hist[r].before.bytes) > MULTIPART_TRIGGER_SIZE
    /\ keyIsGz => hist[r].before.tag # NoTag

\* C4: a committed run that found a resumable destination of logical size L
\* and a source of L + N bytes read exactly the bytes L .. L+N-1, passed the
\* copy of the existing object as part 1 followed by the parts holding the
\* bytes it read, and wrote L + N to the tag.
C4_AppendResume ==
    \A r \in Runs :
        LET L == LogicalSizeBefore(r)
            S == hist[r].eofSize
        IN  (Committed(r) /\ ResumableBefore(r) /\ ~hist[r].grew /\ L <= S) =>
                /\ run[r].starting_byte = L
                /\ hist[r].read = Content(L, S)
                /\ hist[r].copied
                /\ hist[r].completeArgs[1] =
                       [PartNumber |-> 1, ETag |-> ETag(hist[r].before.bytes)]
                /\ sessions[run[r].mpu_id].parts[1] = hist[r].before.bytes
                /\ Decompress(UploadedBytes(r, 2)).ok
                /\ Decompress(UploadedBytes(r, 2)).data = Content(L, S)
                /\ hist[r].tagWritten = S

C4_Witness ==
    \E r \in Runs :
        /\ Committed(r)
        /\ ResumableBefore(r)
        /\ ~hist[r].grew
        /\ LogicalSizeBefore(r) < hist[r].eofSize
        /\ hist[r].read # << >>

(* C5 *)

\* C5: a committed run that found no destination object started at offset 0,
\* issued no copy, uploaded the whole source as parts 1..k, k >= 1, and wrote
\* the source's size to the tag.
C5_ColdStart ==
    \A r \in Runs :
        (Committed(r) /\ ~hist[r].before.exists /\ ~hist[r].grew) =>
            LET ps == hist[r].completeArgs
                n  == hist[r].eofSize
            IN  /\ run[r].starting_byte = 0
                /\ ~hist[r].copied
                /\ Len(ps) >= 1
                /\ \A i \in 1..Len(ps) : ps[i].PartNumber = i
                /\ hist[r].read = Content(0, n)
                /\ Decompress(UploadedBytes(r, 1)).ok
                /\ Decompress(UploadedBytes(r, 1)).data = Content(0, n)
                /\ hist[r].tagWritten = n

C5_Witness ==
    \E r \in Runs :
        /\ Committed(r)
        /\ ~hist[r].before.exists
        /\ ~hist[r].grew
        /\ hist[r].tagWritten = MULTIPART_TRIGGER_SIZE + 1
        /\ Len(hist[r].completeArgs) = 2

(* C6 *)

\* The run's multipart upload was completed by the backend.
CompleteSucceeded(r) == run[r].mpu_id # 0 /\ ~sessions[run[r].mpu_id].open

\* C6: a run writes the tag at most once and only after its
\* complete_multipart_upload succeeded; until then, and for good if the run
\* aborts before, the destination's tag is the one it had before the run.
C6_NoPartialCommit ==
    \A r \in Runs :
        /\ hist[r].tagWrites <= 1
        /\ hist[r].tagWrites = 1 => (hist[r].completeCalls = 1 /\ CompleteSucceeded(r))
        /\ (run[r].pc # "idle" /\ ~CompleteSucceeded(r)) =>
               (hist[r].tagWrites = 0 /\ obj.tag = hist[r].before.tag)

C6_Witness ==
    \E r \in Runs :
        /\ run[r].pc = "aborted"
        /\ hist[r].completeCalls = 1
        /\ ~CompleteSucceeded(r)
        /\ hist[r].before.tag # NoTag
        /\ obj.tag = hist[r].before.tag

(* C7 *)

\* C7: a committed run that found a resumable destination of logical size L
\* and a source of exactly L bytes read nothing, passed exactly two parts to
\* complete_multipart_upload (the copy, then a part with no source bytes),
\* and wrote L to the tag.
C7_NoOpAppend ==
    \A r \in Runs :
        LET L == LogicalSizeBefore(r) IN
        (Committed(r) /\ ResumableBefore(r) /\ ~hist[r].grew
            /\ hist[r].eofSize = L) =>
                /\ run[r].starting_byte = L
                /\ hist[r].read = << >>
                /\ Len(hist[r].completeArgs) = 2
                /\ hist[r].completeArgs[1] =
                       [PartNumber |-> 1, ETag |-> ETag(hist[r].before.bytes)]
                /\ hist[r].completeArgs[2].PartNumber = 2
                /\ Decompress(UploadedBytes(r, 2)) = [ok |-> TRUE, data |-> << >>]
                /\ hist[r].tagWritten = L

C7_Witness ==
    \E r \in Runs :
        /\ Committed(r)
        /\ ResumableBefore(r)
        /\ ~hist[r].grew
        /\ keyIsGz
        /\ hist[r].eofSize = LogicalSizeBefore(r)
        /\ run[r].pc = "done"

(* C8 *)

\* The stored bytes with the gzip headers' MTIME field blanked.
StripMtime(bytes) ==
    [i \in 1..Len(bytes) |-> IF bytes[i].k = "hdr" THEN Hdr(0) ELSE bytes[i]]

\* A committed run found a destination not above the trigger size that an
\* earlier run had committed from the same, unchanged source.
ReuploadUnchanged(r) ==
    /\ Committed(r)
    /\ SourceSteady(r)
    /\ hist[r].before.exists
    /\ Size(hist[r].before.bytes) <= MULTIPART_TRIGGER_SIZE
    /\ hist[r].before.tag = hist[r].eofSize
    /\ Decompress(hist[r].before.bytes).data = Content(0, hist[r].eofSize)

\* C8 as stated: the run makes one full pass without a copy part, and the
\* object it commits is byte-identical to the object that was there before.
C8_ByteIdentical ==
    \A r \in Runs :
        ReuploadUnchanged(r) =>
            /\ run[r].starting_byte = 0
            /\ ~hist[r].copied
            /\ hist[r].read = Content(0, hist[r].eofSize)
            /\ obj.bytes = hist[r].before.bytes
            /\ Decompress(obj.bytes) = [ok |-> TRUE, data |-> Content(0, hist[r].eofSize)]

\* C8, amended: the run makes one full pass without a copy part, and the
\* object it commits has the size and the bytes of the object that was there
\* before except for the MTIME field of the gzip header; it decompresses to
\* the source's bytes.
C8_IdenticalUpToMtime ==
    \A r \in Runs :
        ReuploadUnchanged(r) =>
            /\ run[r].starting_byte = 0
            /\ ~hist[r].copied
            /\ hist[r].read = Content(0, hist[r].eofSize)
            /\ Size(obj.bytes) = Size(hist[r].before.bytes)
            /\ StripMtime(obj.bytes) = StripMtime(hist[r].before.bytes)
            /\ obj.bytes[1].mtime = hist[r].before.bytes[1].mtime => obj.bytes = hist[r].before.bytes
            /\ Decompress(obj.bytes) = [ok |-> TRUE, data |-> Content(0, hist[r].eofSize)]

C8_Witness ==
    \E r \in Runs :
        /\ ReuploadUnchanged(r)
        /\ hist[r].eofSize > 0
        /\ obj.bytes # hist[r].before.bytes

(* C10 *)

\* A committed cold-start run on a source of exactly 5,242,881 bytes.
BoundaryRun(r) ==
    /\ Committed(r)
    /\ ~hist[r].before.exists
    /\ ~hist[r].grew
    /\ hist[r].eofSize = 5242881

\* C10 as stated: exactly one flush in mid-read and then the final one, so
\* two parts numbered 1 and 2, part 1 above 5,242,880 bytes, and tag 5242881.
C10_TwoParts ==
    \A r \in Runs :
        BoundaryRun(r) =>
            /\ MULTIPART_TRIGGER_SIZE = 5242880
            /\ hist[r].flushes = 1
            /\ Len(hist[r].completeArgs) = 2
            /\ hist[r].completeArgs[1].PartNumber = 1
            /\ hist[r].completeArgs[2].PartNumber = 2
            /\ Size(sessions[run[r].mpu_id].parts[1]) > 5242880
            /\ hist[r].tagWritten = 5242881

\* C10, amended: at most one flush in mid-read (none when the compressed
\* stream stays at or below 5,242,880 bytes), then the final one, so parts
\* numbered 1..k with k = 1 or k = 2; when k = 2, part 1 is above 5,242,880
\* bytes; the tag is 5242881.
C10_OneOrTwoParts ==
    \A r \in Runs :
        BoundaryRun(r) =>
            LET ps == hist[r].completeArgs IN
            /\ MULTIPART_TRIGGER_SIZE = 5242880
            /\ hist[r].flushes <= 1
            /\ Len(ps) = hist[r].flushes + 1
            /\ \A i \in 1..Len(ps) : ps[i].PartNumber = i
            /\ Len(ps) = 2 => Size(sessions[run[r].mpu_id].parts[1]) > 5242880
            /\ hist[r].tagWritten = 5242881

C10_Witness ==
    \E r \in Runs :
        /\ BoundaryRun(r)
        /\ Len(hist[r].completeArgs) = 2
        /\ Size(sessions[run[r].mpu_id].parts[1]) > 5242880
        /\ run[r].pc = "done"

(* C9 *)

\* The tag is the number of source bytes the object represents, and the
\* object decompresses to that many bytes of the source from offset 0 on,
\* each once and in order.
Consistent ==
    obj.exists =>
        /\ Decompress(obj.bytes).ok
        /\ Decompress(obj.bytes).data = Content(0, obj.tag)
        /\ obj.tag = ContentLen(Decompress(obj.bytes).data)

\* Every run has ended without error, and one has run.
AllCompleted ==
    /\ \A r \in Runs : run[r].pc \in {"idle", "done"}
    /\ \E r \in Runs : run[r].pc = "done"

\* C9: with two runs against one destination, a state in which both have
\* completed and the object is not consistent is reached, and only by runs
\* that overlapped: runs one after the other leave the object consistent.
C9_CorruptOnlyByOverlap ==
    (AllCompleted /\ (\A r \in Runs : SourceSteady(r)) /\ ~Consistent) => overlap

C9_Witness ==
    /\ \A r \in Runs : run[r].pc = "done" /\ SourceSteady(r)
    /\ overlap
    /\ Decompress(obj.bytes).ok
    /\ Decompress(obj.bytes).data # Content(0, ContentLen(Decompress(obj.bytes).data))
    /\ obj.tag # ContentLen(Decompress(obj.bytes).data)

(* C11 *)

\* The run is between head_object and what exists() makes of its outcome.
Probing(r) == run[r].pc \in {"probed", "reported"}

\* C11: when head_object reports a missing key (NoSuchKey, or a client error
\* with code 404), exists() returns false without raising and the cached size
\* stays as it is; on any other error upload() ends with that error; the
\* cached size is assigned only on a response of head_object, and then it is
\* the size in the response.
C11_ExistsErrorMapping ==
    [][\A r \in Runs :
        /\ (Probing(r) /\ run'[r] # run[r]) =>
            /\ run[r].resp.code \in {"NoSuchKey", "404"} =>
                /\ run'[r].pc = (IF run[r].pc = "probed" THEN "stat" ELSE "done")
                /\ run'[r].self_size = run[r].self_size
            /\ run[r].resp.code = "200" =>
                /\ run'[r].pc \in {"tagread", "stat", "done"}
                /\ run'[r].self_size = run[r].resp.size
            /\ run[r].resp.code \notin {"200", "NoSuchKey", "404"} =>
                run'[r].pc = "aborted"
        /\ (run'[r].self_size # run[r].self_size /\ run'[r].pc \notin {"probe", "aborted"}) =>
            /\ Probing(r)
            /\ run[r].resp.code = "200"
            /\ run'[r].self_size = run[r].resp.size
    ]_vars

C11_Witness ==
    \E r \in Runs :
        /\ run[r].pc = "stat"
        /\ run[r].resp.code = "404"
        /\ run[r].self_size = NoSize

(* C12 *)

\* The run has decided between resuming and a full upload, and has issued
\* the copy if it resumes.
Planned(r) ==
    run[r].pc \in {"read", "flush", "final", "complete", "settag", "report", "reported", "done"}

\* C12: a run resumes (starting_byte is the logical size of the object, and
\* the copy is issued as part 1) exactly if the destination exists with a
\* physical size above the trigger size; otherwise starting_byte is 0 and no
\* copy is issued.
C12_PlanDecision ==
    \A r \in Runs :
        Planned(r) =>
            LET resume == hist[r].before.exists
                          /\ Size(hist[r].before.bytes) > MULTIPART_TRIGGER_SIZE
            IN  /\ hist[r].copied <=> resume
                /\ resume =>
                    /\ run[r].starting_byte = LogicalSizeBefore(r)
                    /\ hist[r].ops[1] = 1
                    /\ sessions[run[r].mpu_id].parts[1] = hist[r].before.bytes
                /\ ~resume =>
                    /\ run[r].starting_byte = 0
                    /\ "copy" \notin {hist[r].calls[i] : i \in 1..Len(hist[r].calls)}

C12_Witness ==
    \E r \in Runs :
        /\ run[r].pc = "done"
        /\ hist[r].before.exists
        /\ Size(hist[r].before.bytes) = MULTIPART_TRIGGER_SIZE
        /\ ~hist[r].copied
        /\ run[r].starting_byte = 0

(* C13 *)

\* C13: for a key without the .gz suffix the object is stored uncompressed,
\* so that its physical size, which a resuming run takes as starting_byte, is
\* the number of source bytes the object holds.
C13_OffsetIsBytesHeld ==
    \A r \in Runs :
        (~keyIsGz /\ hist[r].copied) =>
            /\ Size(hist[r].before.bytes) = ContentLen(Decompress(hist[r].before.bytes).data)
            /\ run[r].starting_byte = ContentLen(Decompress(hist[r].before.bytes).data)

(* C14 *)

\* The size of the i-th part passed to complete_multipart_upload.
PartSize(r, i) == Size(sessions[run[r].mpu_id].parts[hist[r].completeArgs[i].PartNumber])

\* C14: in the part list passed to complete_multipart_upload every part but
\* the last is larger than the trigger size.
C14_MinimumPartSize ==
    \A r \in Runs :
        hist[r].completeCalls >= 1 =>
            \A i \in 1..(Len(hist[r].completeArgs) - 1) :
                PartSize(r, i) > MULTIPART_TRIGGER_SIZE

C14_Witness ==
    \E r \in Runs :
        /\ hist[r].completeCalls >= 1
        /\ hist[r].flushes = 1
        /\ Len(hist[r].completeArgs) = 2
        /\ PartSize(r, 1) > MULTIPART_TRIGGER_SIZE
        /\ PartSize(r, 2) <= MULTIPART_TRIGGER_SIZE

(* C15 *)

\* The place of a backend call in the order of the protocol.
Rank(c) ==
    CASE c = "begin"    -> 1
      [] c = "copy"     -> 2
      [] c = "part"     -> 3
      [] c = "final"    -> 4
      [] c = "complete" -> 5
      [] c = "tag"      -> 6

\* How many times the run has issued call c.
Issued(r, c) == Cardinality({i \in 1..Len(hist[r].calls) : hist[r].calls[i] = c})

\* C15: the calls of a run are create_multipart_upload once, then at most
\* one copy, then upload_part in mid-read any number of times, then one
\* final upload_part, then one complete_multipart_upload, then one tag
\* write, in this order and never back; the final upload_part is issued at
\* end of input whatever the stream holds; the parts uploaded have strictly
\* increasing part numbers.
C15_ProtocolOrder ==
    \A r \in Runs :
        LET cs == hist[r].calls IN
        /\ run[r].pc # "idle" => (cs # << >> /\ cs[1] = "begin")
        /\ \A i \in 1..(Len(cs) - 1) :
            /\ Rank(cs[i]) <= Rank(cs[i + 1])
            /\ Rank(cs[i]) = Rank(cs[i + 1]) => cs[i] = "part"
            /\ cs[i + 1] = "complete" => cs[i] = "final"
            /\ cs[i + 1] = "tag" => cs[i] = "complete"
        /\ run[r].pc \in {"complete", "settag", "report", "reported", "done"} =>
               Issued(r, "final") = 1
        /\ run[r].pc \in {"settag", "report", "reported", "done"} =>
               Issued(r, "complete") = 1
        /\ run[r].pc \in {"report", "reported", "done"} => Issued(r, "tag") = 1
        /\ \A i \in 1..(Len(hist[r].ops) - 1) : hist[r].ops[i] < hist[r].ops[i + 1]

C15_Witness ==
    \E r \in Runs :
        /\ run[r].pc = "done"
        /\ hist[r].calls = << "begin", "copy", "final", "complete", "tag" >>
        /\ hist[r].read = << >>

(* C16 *)

\* C16: a run that finds a resumable destination of logical size L and a
\* source of S < L bytes reads nothing; if it commits, it has passed the
\* copy and one more part to complete_multipart_upload and has written S to
\* the tag, while the object still holds L source bytes.
C16_TruncatedSource ==
    \A r \in Runs :
        LET L == LogicalSizeBefore(r)
            S == hist[r].eofSize
        IN  (ResumableBefore(r) /\ SourceSteady(r) /\ S # NoSize /\ S < L) =>
                /\ hist[r].read = << >>
                /\ Committed(r) =>
                    /\ Len(hist[r].completeArgs) = 2
                    /\ hist[r].completeArgs[1] =
                           [PartNumber |-> 1, ETag |-> ETag(hist[r].before.bytes)]
                    /\ hist[r].tagWritten = S
                    /\ ContentLen(Decompress(obj.bytes).data) = L

(* C17 *)

\* The run ended on an error before its complete_multipart_upload succeeded.
AbortedBeforeCommit(r) ==
    /\ run[r].pc = "aborted"
    /\ run[r].mpu_id # 0
    /\ Issued(r, "tag") = 0

\* C17: a run has one session of its own; when the run ends on an error
\* after it began the session and before complete_multipart_upload
\* succeeded, the session is still open on the backend and holds the parts
\* the run put there, and the object is as it was before the run.
C17_DanglingSession ==
    /\ \A r \in Runs :
        run[r].pc # "idle" =>
            /\ Issued(r, "begin") = 1
            /\ run[r].mpu_id \in 0..Len(sessions)
    /\ \A r, q \in Runs : (r # q /\ run[r].mpu_id # 0) => run[r].mpu_id # run[q].mpu_id
    /\ Len(sessions) <= runs
    /\ \A r \in Runs :
        AbortedBeforeCommit(r) =>
            /\ sessions[run[r].mpu_id].open
            /\ DOMAIN sessions[run[r].mpu_id].parts =
                   {hist[r].ops[i] : i \in 1..Len(hist[r].ops)}
            /\ obj.exists = hist[r].before.exists
            /\ obj.bytes = hist[r].before.bytes

C17_Witness ==
    \E r \in Runs :
        /\ AbortedBeforeCommit(r)
        /\ hist[r].completeCalls = 1
        /\ sessions[run[r].mpu_id].open
        /\ DOMAIN sessions[run[r].mpu_id].parts = {1, 2}
        /\ obj.exists

(* C18 *)

\* The bound on the stream: at most the trigger size when the loop is about
\* to read, at most the trigger size and one chunk when it is about to
\* upload.
BufferBound(r) ==
    /\ run[r].pc = "read" => Size(run[r].gz.stream) <= MULTIPART_TRIGGER_SIZE
    /\ run[r].pc \in {"flush", "final"} =>
           Size(run[r].gz.stream) <= MULTIPART_TRIGGER_SIZE + READ_CHUNK_SIZE

RECURSIVE Verbatim(_)
Verbatim(bytes) ==
    \/ bytes = << >>
    \/ /\ bytes[1].k = "data"
       /\ SegSize(bytes[1]) = bytes[1].to - bytes[1].from
       /\ Verbatim(Tail(bytes))

\* C19: with compress = False the parts a run uploads are the source bytes
\* it read, unchanged, and the object grows by the number of bytes read.
C19_CompressionOptional ==
    \A r \in Runs :
        (~compress /\ Committed(r) /\ ~hist[r].grew) =>
            LET first == IF hist[r].copied THEN 2 ELSE 1 IN
            /\ Verbatim(UploadedBytes(r, first))
            /\ Size(UploadedBytes(r, first)) = ContentLen(hist[r].read)
            /\ Size(obj.bytes) =
                   (IF hist[r].copied THEN Size(hist[r].before.bytes) ELSE 0)
                   + ContentLen(hist[r].read)

(* C20 *)

\* C20: every run that has started ends, aborted or done.
C20_Termination == \A r \in Runs : (~Finished(r)) ~> Finished(r)

C20_Witness ==
    \E r \in Runs :
        /\ run[r].pc = "done"
        /\ hist[r].copied
        /\ ~hist[r].grew
        /\ hist[r].read = Content(run[r].starting_byte, hist[r].eofSize)
        /\ hist[r].read # << >>

====
